---- MODULE Spec2Model ----
(***************************************************************************)
(* Model of src/soporte.py: the column classifier separar_df and the six   *)
(* chart renderers built on it.  A table (pandas DataFrame) is a sequence  *)
(* of columns [name, dtype, values]; a figure is the flat sequence `axes`  *)
(* of grid cells returned by plt.subplots(...).flat.  Every function is    *)
(* one call on the caller's table df: its prologue (column selection and   *)
(* grid creation), one step per iteration of its for-loop, and its         *)
(* epilogue (removal of the trailing cell, tight_layout).                  *)
(*                                                                         *)
(* Library behaviour is modelled by what the library does: select_dtypes   *)
(* by the numpy dtype hierarchy, value_counts / sort_values as any order   *)
(* that is sorted by the key (the order of ties is not specified),         *)
(* plt.subplots as raising ValueError for nrows = 0, fig.delaxes as        *)
(* raising when the axes is not part of the figure any more.  Pearson      *)
(* coefficients are not computed: the correlation matrix is represented by *)
(* its labels, which is all that the mask depends on.                      *)
(***************************************************************************)
EXTENDS Integers, Sequences, FiniteSets, TLC

VARIABLES df, pc, fn, vr, df_sub, n_plots, axes, i, err, ret, heat

vars == <<df, pc, fn, vr, df_sub, n_plots, axes, i, err, ret, heat>>

(* ------------------------------ bounds --------------------------------- *)

\* columns of a table whose rows are fixed per dtype (layout cases)
MaxCols == 5
\* columns of a table whose rows are drawn freely (data cases)
MaxDataCols == 2
\* rows of a table: layout cases hold NRows rows, data cases 1..NRows rows
NRows == 3

(* ------------------------------ tables --------------------------------- *)

AllNames == <<"c1", "c2", "c3", "c4", "c5", "c6", "c7", "c8">>

\* the labels an object column draws its values from
Cats == {"a", "b"}

\* the numbers an int64 column draws its values from
Vals == {1, 2}

\* a name that is never a column of a table
MISSING == "zz"

Dtypes == {"int64", "object", "bool", "datetime64"}

\* the rows a layout-case column of each dtype holds
FixedValues(dtype) ==
    CASE dtype = "int64"      -> [r \in 1..NRows |-> IF r % 2 = 0 THEN 1 ELSE 2]
      [] dtype = "object"     -> [r \in 1..NRows |-> IF r % 2 = 0 THEN "a" ELSE "b"]
      [] dtype = "bool"       -> [r \in 1..NRows |-> (r % 2 = 0)]
      [] dtype = "datetime64" -> [r \in 1..NRows |-> r]

LayoutCols == {[dtype |-> d, values |-> FixedValues(d)] : d \in Dtypes}

\* the columns of nr rows a data-case table is made of
DataCols(nr) ==
    {[dtype |-> "int64", values |-> v] : v \in [1..nr -> Vals]}
      \cup {[dtype |-> "object", values |-> v] : v \in [1..nr -> Cats]}

MkTable(f) ==
    [k \in DOMAIN f |-> [name |-> AllNames[k], dtype |-> f[k].dtype, values |-> f[k].values]]

Tables ==
    {MkTable(f) : f \in UNION {[1..n -> LayoutCols] : n \in 0..MaxCols}}
      \cup {MkTable(f) :
               f \in UNION {[1..n -> DataCols(nr)] : n \in 0..MaxDataCols, nr \in 1..NRows}}

\* df.columns
columns(t) == [k \in 1..Len(t) |-> t[k].name]

Names(t) == {t[k].name : k \in 1..Len(t)}

\* df[name]
Col(t, name) == t[CHOOSE k \in 1..Len(t) : t[k].name = name]

\* the arguments a caller may pass as vr: any column name, or a name that is no column
VrInputs(t) == Names(t) \cup {MISSING}

(* --------------------------- pandas / numpy ---------------------------- *)

is_number_or_bool(dtype) == dtype \in {"int64", "bool"}

\* issubclass(dtype.type, np.number): np.bool_, np.datetime64 and np.object_ are not numbers
is_number(dtype) == dtype \in {"int64"}

is_object(dtype) == dtype = "object"

dtype_predicate(dtype, include) ==
    CASE include = "number" -> is_number(dtype)
      [] include = "O"      -> is_object(dtype)

select_dtypes_inplace(t, include) ==
    LET out == SelectSeq(t, LAMBDA c : dtype_predicate(c.dtype, include))
    IN  [self |-> out, out |-> out]

\* DataFrame.select_dtypes(include = ...): a new frame holding the columns of the
\* dtype, in the frame's order; self is the receiver after the call
select_dtypes(t, include) ==
    [self |-> t, out |-> SelectSeq(t, LAMBDA c : dtype_predicate(c.dtype, include))]

math_ceil_floor(num, den) == num \div den

\* math.ceil(num / den), den > 0
math_ceil(num, den) == IF num % den = 0 THEN num \div den ELSE (num \div den) + 1

(* --------------------------- matplotlib -------------------------------- *)

ERR_ROWS == "ValueError: Number of rows must be a positive integer"

ERR_INDEX == "IndexError: index out of bounds"

ERR_DELAXES == "ValueError: axes is not in the figure"

ERR_KEY == "KeyError: Column not found"

ERR_INTERPRET == "ValueError: Could not interpret value for y"

ERR_MEAN == "TypeError: agg function failed"

ERR_HEATMAP == "ValueError: empty heatmap"

\* a fresh axes at (row, col) of the grid: no chart, part of the figure
EmptyCell(row, col) ==
    [row |-> row, col |-> col, charts |-> <<>>, removed |-> FALSE, late |-> FALSE]

\* plt.subplots(nrows, ncols).flat: the nrows * ncols cells of the grid, row by row
subplots(nrows, ncols) ==
    [j \in 1..(nrows * ncols) |-> EmptyCell((j - 1) \div ncols, (j - 1) % ncols)]

\* position in 1..Len(ax) of python index idx (negative indices count from the end),
\* 0 when the index is out of bounds
Index(ax, idx) ==
    LET p == IF idx < 0 THEN Len(ax) + idx + 1 ELSE idx + 1
    IN  IF p \in 1..Len(ax) THEN p ELSE 0

\* a seaborn plotting call with ax = ax[p]: the chart is added to that axes, also
\* when the axes was removed from the figure before
Draw(ax, p, chart) ==
    [ax EXCEPT ![p].charts = Append(@, chart),
               ![p].late = @ \/ ax[p].removed]

\* fig.delaxes(ax[p])
delaxes(ax, p) == [ax EXCEPT ![p].removed = TRUE]

(* ------------------------------- state --------------------------------- *)

Init ==
    /\ df \in Tables
    /\ pc = "idle"
    /\ fn = "none"
    /\ vr = ""
    /\ df_sub = <<>>
    /\ n_plots = 0
    /\ axes = <<>>
    /\ i = 0
    /\ err = ""
    /\ ret = <<>>
    /\ heat = <<>>

\* the body of separar_df: the table after the two selections, and the pair returned
separar_df_result(t) ==
    LET a == select_dtypes(t, "number")
        b == select_dtypes(a.self, "O")
    IN  [self |-> b.self, out |-> <<a.out, b.out>>]

separar_df ==
    /\ pc = "idle"
    /\ fn' = "separar_df"
    /\ df' = separar_df_result(df).self
    /\ ret' = separar_df_result(df).out
    /\ pc' = "done"
    /\ UNCHANGED <<vr, df_sub, n_plots, axes, i, err, heat>>

\* the prologue shared by the grid renderers: n_plots, num_filas, plt.subplots, axes.flat
Prologue(f, v, self, sub) ==
    LET num_filas == math_ceil(Len(sub), 2)
    IN  /\ pc = "idle"
        /\ fn' = f
        /\ vr' = v
        /\ df' = self
        /\ df_sub' = sub
        /\ n_plots' = Len(sub)
        /\ i' = 0
        /\ IF num_filas > 0
             THEN /\ axes' = subplots(num_filas, 2)
                  /\ pc' = "loop"
                  /\ err' = ""
             ELSE /\ axes' = <<>>
                  /\ pc' = "error"
                  /\ err' = ERR_ROWS
        /\ UNCHANGED <<ret, heat>>

Raise(e) ==
    /\ pc' = "error"
    /\ err' = e
    /\ UNCHANGED <<df, fn, vr, df_sub, n_plots, axes, i, ret, heat>>

\* one iteration of `for i, col in enumerate(...)` that plots chart into axes[i]
PlotAt(chart) ==
    IF Index(axes, i) = 0
      THEN Raise(ERR_INDEX)
      ELSE /\ axes' = Draw(axes, Index(axes, i), chart)
           /\ i' = i + 1
           /\ UNCHANGED <<df, pc, fn, vr, df_sub, n_plots, err, ret, heat>>

has_trailing_even(n) == n % 2 = 0

\* n_plots % 2 != 0
has_trailing(n) == n % 2 # 0

\* the epilogue shared by the grid renderers: delaxes(axes[-1]) when n_plots is odd,
\* then tight_layout
Epilogue ==
    IF has_trailing(n_plots)
      THEN IF Index(axes, -1) = 0
             THEN Raise(ERR_INDEX)
             ELSE IF axes[Index(axes, -1)].removed
                    THEN Raise(ERR_DELAXES)
                    ELSE /\ axes' = delaxes(axes, Index(axes, -1))
                         /\ pc' = "done"
                         /\ UNCHANGED <<df, fn, vr, df_sub, n_plots, i, err, ret, heat>>
      ELSE /\ pc' = "done"
           /\ UNCHANGED <<df, fn, vr, df_sub, n_plots, axes, i, err, ret, heat>>

InLoop(f) == pc = "loop" /\ fn = f /\ i < n_plots

AtEnd(f) == pc = "loop" /\ fn = f /\ i = n_plots

(* --------------------------- plot_numericas ---------------------------- *)

nbins == 20

plot_numericas_call ==
    Prologue("plot_numericas", "", separar_df_result(df).self, separar_df_result(df).out[1])

plot_numericas_iter ==
    /\ InLoop("plot_numericas")
    /\ PlotAt([kind |-> "hist", x |-> df_sub[i + 1].name, bins |-> nbins])

plot_numericas_end == AtEnd("plot_numericas") /\ Epilogue

(* -------------------------- plot_categoricas --------------------------- *)

Distinct(values) == {values[r] : r \in DOMAIN values}

Count(values, c) == Cardinality({r \in DOMAIN values : values[r] = c})

\* the orderings of the finite set S
Perms(S) ==
    {s \in [1..Cardinality(S) -> S] : \A a, b \in 1..Cardinality(S) : a # b => s[a] # s[b]}

value_counts_ascending(values) ==
    {s \in Perms(Distinct(values)) :
        \A a \in 1..(Len(s) - 1) : Count(values, s[a]) <= Count(values, s[a + 1])}

\* Series.value_counts().index: the distinct values, most frequent first; the order
\* among equally frequent values is left open
value_counts(values) ==
    {s \in Perms(Distinct(values)) :
        \A a \in 1..(Len(s) - 1) : Count(values, s[a]) >= Count(values, s[a + 1])}

\* sns.countplot(x = col, data = ..., order = order): one bar per entry of order,
\* as high as the number of rows holding it
countplot(values, order) ==
    [k \in 1..Len(order) |-> [cat |-> order[k], height |-> Count(values, order[k])]]

plot_categoricas_call ==
    Prologue("plot_categoricas", "", separar_df_result(df).self, separar_df_result(df).out[2])

plot_categoricas_iter ==
    /\ InLoop("plot_categoricas")
    /\ LET col == df_sub[i + 1].name
       IN  \E order \in value_counts(Col(df, col).values) :
              PlotAt([kind |-> "count", x |-> col,
                      bars |-> countplot(df_sub[i + 1].values, order)])

plot_categoricas_end == AtEnd("plot_categoricas") /\ Epilogue

(* ----------------------- relacion_vr_categoricas ----------------------- *)

\* the number a value counts as in an aggregation (True is 1, False is 0)
NumVal(dtype, v) == IF dtype = "bool" THEN (IF v THEN 1 ELSE 0) ELSE v

RECURSIVE SumOver(_, _)
SumOver(f, R) ==
    IF R = {} THEN 0
    ELSE LET r == CHOOSE x \in R : TRUE IN f[r] + SumOver(f, R \ {r})

\* df.groupby(col)[v].mean(): one row per distinct value of col, holding the mean
\* of v over the rows of the group, kept as the fraction num / den
groupby_mean(t, col, v) ==
    LET keys == Col(t, col).values
        y    == [r \in DOMAIN keys |-> NumVal(Col(t, v).dtype, Col(t, v).values[r])]
        rows(c) == {r \in DOMAIN keys : keys[r] = c}
    IN  {[cat |-> c, num |-> SumOver(y, rows(c)), den |-> Cardinality(rows(c))] :
            c \in Distinct(keys)}

sort_values_ascending(S) ==
    {s \in Perms(S) :
        \A a \in 1..(Len(s) - 1) : s[a].num * s[a + 1].den <= s[a + 1].num * s[a].den}

\* .sort_values(ascending = False).reset_index(): the rows, largest mean first; the
\* order among equal means is left open
sort_values(S) ==
    {s \in Perms(S) :
        \A a \in 1..(Len(s) - 1) : s[a].num * s[a + 1].den >= s[a + 1].num * s[a].den}

\* sns.barplot(x = col, y = vr, data = datos_agrupados): one bar per value of x in
\* order of appearance; each value of x labels one row, whose y is the bar's height
barplot(datos_agrupados) ==
    [k \in 1..Len(datos_agrupados) |->
        [cat |-> datos_agrupados[k].cat,
         num |-> datos_agrupados[k].num,
         den |-> datos_agrupados[k].den]]

relacion_vr_categoricas_call ==
    \E v \in VrInputs(df) :
        Prologue("relacion_vr_categoricas", v,
                 select_dtypes(df, "O").self, select_dtypes(df, "O").out)

relacion_vr_categoricas_plot ==
    LET col == df_sub[i + 1].name
    IN  \E datos_agrupados \in sort_values(groupby_mean(df, col, vr)) :
           PlotAt([kind |-> "bar", x |-> col, y |-> vr, bars |-> barplot(datos_agrupados)])

\* line 106 raises KeyError when vr is no column and TypeError when the mean of an
\* object column is asked for; the mean of a datetime column exists, and whether
\* barplot then accepts it depends on the seaborn version
relacion_vr_categoricas_iter ==
    /\ InLoop("relacion_vr_categoricas")
    /\ IF vr \notin Names(df)
         THEN Raise(ERR_KEY)
         ELSE CASE Col(df, vr).dtype = "object"     -> Raise(ERR_MEAN)
                [] Col(df, vr).dtype = "datetime64" ->
                      Raise(ERR_MEAN) \/ relacion_vr_categoricas_plot
                [] OTHER                            -> relacion_vr_categoricas_plot

relacion_vr_categoricas_end == AtEnd("relacion_vr_categoricas") /\ Epilogue

(* ------------------------ relacion_vr_numericas ------------------------ *)

is_self_never(col, v) == FALSE

\* col == vr
is_self(col, v) == col = v

relacion_vr_numericas_call ==
    \E v \in VrInputs(df) :
        Prologue("relacion_vr_numericas", v,
                 select_dtypes(df, "number").self, select_dtypes(df, "number").out)

relacion_vr_numericas_iter ==
    /\ InLoop("relacion_vr_numericas")
    /\ LET col == df_sub[i + 1].name
           p   == Index(axes, i)
       IN  IF p = 0
             THEN Raise(ERR_INDEX)
             ELSE IF is_self(col, vr)
                    THEN IF axes[p].removed
                           THEN Raise(ERR_DELAXES)
                           ELSE /\ axes' = delaxes(axes, p)
                                /\ i' = i + 1
                                /\ UNCHANGED <<df, pc, fn, vr, df_sub, n_plots, err, ret, heat>>
                    ELSE IF vr \notin Names(df_sub)
                           THEN Raise(ERR_INTERPRET)
                           ELSE PlotAt([kind |-> "scatter", x |-> col, y |-> vr])

relacion_vr_numericas_end == AtEnd("relacion_vr_numericas") /\ Epilogue

(* ----------------------- plot_matriz_correlacion ----------------------- *)

\* DataFrame.corr(numeric_only = True): a square matrix labelled by the numeric
\* columns, among which pandas counts the boolean ones
corr(t) ==
    [self |-> t,
     out  |-> columns(SelectSeq(t, LAMBDA c : is_number(c.dtype) \/ c.dtype = "bool"))]

\* np.ones_like(matriz_correlacion, dtype = np.bool_)
ones_like(labels) ==
    [p \in (0..(Len(labels) - 1)) \X (0..(Len(labels) - 1)) |-> TRUE]

triu_above(m) == [p \in DOMAIN m |-> IF p[2] - p[1] >= 1 THEN m[p] ELSE FALSE]

\* np.triu(m): the entries with j - i >= 0 are kept, the others are zeroed
triu(m) == [p \in DOMAIN m |-> IF p[2] - p[1] >= 0 THEN m[p] ELSE FALSE]

\* sns.heatmap(data, annot = True, mask = mask): the cells whose mask is False are
\* drawn and annotated
heatmap(labels, mask) ==
    [labels |-> labels, mask |-> mask, annot |-> {p \in DOMAIN mask : ~mask[p]}]

\* what heatmap does with a matrix of no rows depends on the seaborn version
plot_matriz_correlacion ==
    /\ pc = "idle"
    /\ fn' = "plot_matriz_correlacion"
    /\ df' = corr(df).self
    /\ LET matriz_correlacion == corr(df).out
           mascara            == triu(ones_like(matriz_correlacion))
       IN  \/ /\ heat' = heatmap(matriz_correlacion, mascara)
              /\ pc' = "done"
              /\ err' = ""
           \/ /\ Len(matriz_correlacion) = 0
              /\ heat' = heat
              /\ pc' = "error"
              /\ err' = ERR_HEATMAP
    /\ UNCHANGED <<vr, df_sub, n_plots, axes, i, ret>>

(* -------------------------- detectar_outliers -------------------------- *)

\* [cmap(i) for i in range(cmap.N)] for cmap = get_cmap('mako', n): n colours
color_list(n) == [k \in 1..n |-> k - 1]

detectar_outliers_call ==
    \E v \in VrInputs(df) :
        Prologue("detectar_outliers", v,
                 select_dtypes(df, "number").self, select_dtypes(df, "number").out)

detectar_outliers_iter ==
    /\ InLoop("detectar_outliers")
    /\ IF i + 1 \in DOMAIN color_list(n_plots)
         THEN PlotAt([kind |-> "box", x |-> df_sub[i + 1].name,
                      color |-> color_list(n_plots)[i + 1]])
         ELSE Raise(ERR_INDEX)

detectar_outliers_end == AtEnd("detectar_outliers") /\ Epilogue

Next ==
    \/ separar_df
    \/ plot_numericas_call
    \/ plot_numericas_iter
    \/ plot_numericas_end
    \/ plot_categoricas_call
    \/ plot_categoricas_iter
    \/ plot_categoricas_end
    \/ relacion_vr_categoricas_call
    \/ relacion_vr_categoricas_iter
    \/ relacion_vr_categoricas_end
    \/ relacion_vr_numericas_call
    \/ relacion_vr_numericas_iter
    \/ relacion_vr_numericas_end
    \/ plot_matriz_correlacion
    \/ detectar_outliers_call
    \/ detectar_outliers_iter
    \/ detectar_outliers_end

Spec == Init /\ [][Next]_vars

(* ------------------------------- claims -------------------------------- *)

GridRenderers ==
    {"plot_numericas", "plot_categoricas", "relacion_vr_categoricas",
     "relacion_vr_numericas", "detectar_outliers"}

\* the cells of the figure that hold at least one chart
Charted == {j \in 1..Len(axes) : axes[j].charts # <<>>}

Removed == {j \in 1..Len(axes) : axes[j].removed}

\* the position of the column called name in the table t
Pos(t, name) == CHOOSE k \in 1..Len(t) : t[k].name = name

\* the grid has ceil(n_plots / 2) rows of 2 cells
GridShapeOk ==
    /\ Len(axes) % 2 = 0
    /\ Len(axes) >= n_plots
    /\ Len(axes) - 2 < n_plots

\* the example of the claim: 5 categorical columns give 6 cells, 1 removed, 5 charts
FiveCategoricalExample ==
    (fn = "plot_categoricas" /\ n_plots = 5) =>
        /\ Len(axes) = 6
        /\ Removed = {6}
        /\ Charted = 1..5

\* C1, as stated: when a grid renderer called with n_plots >= 1 columns completes,
\* the grid has ceil(n_plots/2) rows of 2 cells and its final cell has been removed
\* if and only if n_plots is odd.
C1_FinalCellRemovedIffOdd ==
    (pc = "done" /\ fn \in GridRenderers /\ n_plots >= 1) =>
        /\ GridShapeOk
        /\ axes[Len(axes)].removed <=> (n_plots % 2 = 1)
        /\ FiveCategoricalExample

\* C1, amended: when a grid renderer called with n_plots >= 1 columns completes, the
\* grid has ceil(n_plots/2) rows of 2 cells and its final cell has been removed if and
\* only if n_plots is odd or the renderer is relacion_vr_numericas and vr is the
\* column plotted in the final cell (the last numeric column, n_plots even).
C1_FinalCellRemovedAmended ==
    (pc = "done" /\ fn \in GridRenderers /\ n_plots >= 1) =>
        /\ GridShapeOk
        /\ axes[Len(axes)].removed <=>
              \/ n_plots % 2 = 1
              \/ /\ fn = "relacion_vr_numericas"
                 /\ n_plots = Len(axes)
                 /\ df_sub[n_plots].name = vr
        /\ FiveCategoricalExample

C1_Witness ==
    /\ pc = "done"
    /\ fn = "plot_categoricas"
    /\ n_plots = 5
    /\ axes[6].removed

\* C2: in relacion_vr_numericas with vr one of the n_plots >= 1 numeric columns, the
\* call does not fail, the cell of the vr column is removed once its iteration has
\* run and never holds a chart, and at completion exactly n_plots - 1 cells hold a
\* chart, each one scatter chart of its column against vr.
C2_SelfRelationRemoved ==
    (fn = "relacion_vr_numericas" /\ n_plots >= 1 /\ vr \in Names(df_sub)) =>
        LET p == Pos(df_sub, vr)
        IN  /\ pc # "error"
            /\ axes[p].charts = <<>>
            /\ (i >= p) => axes[p].removed
            /\ (pc = "done") =>
                  /\ Cardinality(Charted) = n_plots - 1
                  /\ Charted = (1..n_plots) \ {p}
                  /\ \A j \in Charted :
                        /\ Len(axes[j].charts) = 1
                        /\ axes[j].charts[1].kind = "scatter"
                        /\ axes[j].charts[1].x = df_sub[j].name
                        /\ axes[j].charts[1].y = vr

\* numeric columns [c1, c2] with vr = c2: 2 cells, 1 scatter, 1 removed cell
C2_Witness ==
    /\ pc = "done"
    /\ fn = "relacion_vr_numericas"
    /\ n_plots = 2
    /\ df_sub[2].name = vr
    /\ Len(axes) = 2
    /\ Charted = {1}
    /\ Removed = {2}

\* C3: a grid renderer called on a table with no column of the kind it plots
\* (n_plots = 0) never ends in an error caused by the zero-row grid or by indexing.
C3_EmptyInputDoesNotCrash ==
    (fn \in GridRenderers /\ n_plots = 0) =>
        ~(pc = "error" /\ err \in {ERR_ROWS, ERR_INDEX})

ColumnNotFound == {ERR_KEY, ERR_INTERPRET}

\* C4: a call of relacion_vr_categoricas or relacion_vr_numericas whose vr is no
\* column of the table never completes normally, whatever the number of plotted
\* columns; when it fails the error is a column-not-found error, and no chart has
\* been drawn into a cell.
C4_MissingVrIsColumnNotFound ==
    (fn \in {"relacion_vr_categoricas", "relacion_vr_numericas"} /\ vr \notin Names(df)) =>
        /\ pc # "done"
        /\ (pc = "error") => (err \in ColumnNotFound)
        /\ Charted = {}

\* s lists columns of t, in the order t lists them
OrderPreserved(s, t) ==
    /\ \A a \in 1..Len(s) : \E k \in 1..Len(t) : t[k] = s[a]
    /\ \A a, b \in 1..Len(s) : (a < b) => (Pos(t, s[a].name) < Pos(t, s[b].name))

\* C5: separar_df returns two disjoint column subsets, each in the order of the
\* source table, the first holding exactly the numeric columns and the second
\* exactly the object columns; boolean and datetime columns are in neither.
C5_SeparatesByKind ==
    (pc = "done" /\ fn = "separar_df") =>
        /\ Names(ret[1]) \cap Names(ret[2]) = {}
        /\ OrderPreserved(ret[1], df)
        /\ OrderPreserved(ret[2], df)
        /\ Names(ret[1]) = {df[k].name : k \in {m \in 1..Len(df) : df[m].dtype = "int64"}}
        /\ Names(ret[2]) = {df[k].name : k \in {m \in 1..Len(df) : df[m].dtype = "object"}}
        /\ \A k \in 1..Len(df) :
              (df[k].dtype \in {"bool", "datetime64"}) =>
                  (df[k].name \notin Names(ret[1]) \cup Names(ret[2]))

C5_Witness ==
    /\ pc = "done"
    /\ fn = "separar_df"
    /\ {df[k].dtype : k \in 1..Len(df)} = Dtypes
    /\ Len(ret[1]) >= 2
    /\ Len(ret[2]) >= 1

\* the number of rows of column col of df that hold the value c
Frequency(col, c) ==
    Cardinality({r \in DOMAIN Col(df, col).values : Col(df, col).values[r] = c})

CountCharts ==
    {axes[j].charts[1] : j \in {m \in Charted : axes[m].charts[1].kind = "count"}}

\* C6, as stated: in every chart of plot_categoricas each bar's category occurs
\* strictly more often in the column than the category of the bar that follows it.
C6_BarsStrictlyDescending ==
    (fn = "plot_categoricas") =>
        \A ch \in CountCharts :
            \A a \in 1..(Len(ch.bars) - 1) :
                Frequency(ch.x, ch.bars[a].cat) > Frequency(ch.x, ch.bars[a + 1].cat)

\* C6, amended: in every chart of plot_categoricas each bar is as high as its
\* category is frequent in the column, and each bar's category occurs at least as
\* often as the category of the bar that follows it (equally frequent categories
\* are neighbours of equal height).
C6_BarsDescending ==
    (fn = "plot_categoricas") =>
        \A ch \in CountCharts :
            /\ \A a \in 1..Len(ch.bars) :
                  ch.bars[a].height = Frequency(ch.x, ch.bars[a].cat)
            /\ \A a \in 1..(Len(ch.bars) - 1) :
                  Frequency(ch.x, ch.bars[a].cat) >= Frequency(ch.x, ch.bars[a + 1].cat)

C6_Witness ==
    /\ pc = "done"
    /\ fn = "plot_categoricas"
    /\ \E ch \in CountCharts :
          /\ Len(ch.bars) = 2
          /\ ch.bars[1].height > ch.bars[2].height

\* C7: in the heatmap of a k x k correlation matrix, k >= 1, cell (i, j) is hidden by
\* the mask if and only if j >= i, and it carries an annotation if and only if j < i.
C7_MaskHidesUpperTriangle ==
    (pc = "done" /\ fn = "plot_matriz_correlacion" /\ Len(heat.labels) >= 1) =>
        LET k == Len(heat.labels)
        IN  /\ DOMAIN heat.mask = (0..(k - 1)) \X (0..(k - 1))
            /\ \A a, b \in 0..(k - 1) :
                  /\ heat.mask[<<a, b>>] <=> (b >= a)
                  /\ (<<a, b>> \in heat.annot) <=> (b < a)

C7_Witness ==
    /\ pc = "done"
    /\ fn = "plot_matriz_correlacion"
    /\ Len(heat.labels) >= 3
    /\ <<2, 0>> \in heat.annot

\* C8: no step of separar_df or of a renderer changes the caller's table (names,
\* order and kinds of the columns, values of the rows), whether the call returns
\* or fails.
C8_TableNotMutated == [][df' = df]_vars

C8_Witness ==
    /\ pc \in {"done", "error"}
    /\ fn \in GridRenderers
    /\ Len(df) >= 2
    /\ Len(df_sub) >= 1
    /\ Len(df_sub) < Len(df)

\* C9: in a grid renderer with n_plots >= 1 the column at position i goes to cell
\* index i, at row i // 2 and column i % 2, and i is always an index of the grid; no
\* cell holds more than one chart, no chart is drawn into a removed cell, and no
\* cell is removed twice (in relacion_vr_numericas the cell of vr is never the
\* trailing cell removed for odd n_plots).
C9_CellAddressing ==
    (fn \in GridRenderers /\ n_plots >= 1) =>
        /\ err \notin {ERR_ROWS, ERR_INDEX, ERR_DELAXES}
        /\ i <= n_plots
        /\ n_plots <= Len(axes)
        /\ \A j \in 1..Len(axes) :
              /\ axes[j].row = (j - 1) \div 2
              /\ axes[j].col = (j - 1) % 2
              /\ Len(axes[j].charts) <= 1
              /\ ~axes[j].late
              /\ (axes[j].charts # <<>>) =>
                    /\ j <= i
                    /\ axes[j].charts[1].x = df_sub[j].name
              /\ (j <= i) =>
                    \/ axes[j].charts # <<>>
                    \/ fn = "relacion_vr_numericas" /\ df_sub[j].name = vr /\ axes[j].removed
        /\ (fn = "relacion_vr_numericas" /\ vr \in Names(df_sub) /\ n_plots % 2 = 1) =>
              Pos(df_sub, vr) # Len(axes)

\* vr is the last of 3 numeric columns: its cell (index 2) and the trailing cell
\* (index 3) are both removed
C9_Witness ==
    /\ pc = "done"
    /\ fn = "relacion_vr_numericas"
    /\ n_plots = 3
    /\ df_sub[3].name = vr
    /\ Removed = {3, 4}
    /\ Charted = {1, 2}

BarCharts ==
    {axes[j].charts[1] : j \in {m \in Charted : axes[m].charts[1].kind = "bar"}}

\* the rows of df whose value in column col is c
RowsOf(col, c) == {r \in DOMAIN Col(df, col).values : Col(df, col).values[r] = c}

\* C10: in relacion_vr_categoricas with vr a numeric column and at least one
\* categorical column the call does not fail, at completion every categorical
\* column has its chart, and each chart has exactly one bar per
\* distinct category of its column, as high as the mean of vr over the rows of the
\* category, the bars in descending order of that mean.
C10_GroupMeansDescending ==
    (fn = "relacion_vr_categoricas" /\ vr \in Names(df) /\ Col(df, vr).dtype = "int64") =>
        /\ (n_plots >= 1) => (pc # "error")
        /\ (pc = "done") => (Charted = 1..n_plots)
        /\ \A ch \in BarCharts :
              /\ {ch.bars[a].cat : a \in 1..Len(ch.bars)} = Distinct(Col(df, ch.x).values)
              /\ Len(ch.bars) = Cardinality(Distinct(Col(df, ch.x).values))
              /\ \A a \in 1..Len(ch.bars) :
                    /\ ch.bars[a].den > 0
                    /\ ch.bars[a].num * Cardinality(RowsOf(ch.x, ch.bars[a].cat))
                         = ch.bars[a].den * SumOver(Col(df, vr).values, RowsOf(ch.x, ch.bars[a].cat))
              /\ \A a \in 1..(Len(ch.bars) - 1) :
                    ch.bars[a].num * ch.bars[a + 1].den >= ch.bars[a + 1].num * ch.bars[a].den

C10_Witness ==
    /\ pc = "done"
    /\ fn = "relacion_vr_categoricas"
    /\ vr \in Names(df)
    /\ Col(df, vr).dtype = "int64"
    /\ \E ch \in BarCharts :
          /\ Len(ch.bars) = 2
          /\ ch.bars[1].num * ch.bars[2].den > ch.bars[2].num * ch.bars[1].den

====
